---- MODULE Spec2Model ----
(***************************************************************************)
(* guillotina_oauth/oauth.py: the OAuth utility (service-token manager and *)
(* remote-call dispatcher call_auth) and the OAuthJWTValidator with its    *)
(* USER_CACHE.                                                             *)
(*                                                                         *)
(* Coroutines are modelled between their suspension points: one action is  *)
(* everything a task runs from one await that really suspends (an HTTP     *)
(* request, an asyncio.sleep) to the next.  A task's pending call_auth     *)
(* invocations are a stack of frames; one frame stands for one call_auth   *)
(* invocation together with the recursive retries it made of itself        *)
(* (line 553), a nested frame for the get_service_token call that          *)
(* refresh_service_token makes on status 484 (line 549).                   *)
(*                                                                         *)
(* Time (now) is counted in half seconds, so that the truncation of        *)
(* timegm(...utctimetuple()) and the math.ceil of time.time() do something.*)
(***************************************************************************)
EXTENDS Integers, Sequences, FiniteSets, TLC

VARIABLES
    now,             \* wall clock, in half seconds
    settings,        \* OAuth._settings
    _service_token,  \* OAuth._service_token
    USER_CACHE,      \* the module's LRU: entries [key, user], most recently used first
    pc,              \* per task: where its coroutine is suspended
    stack,           \* per task: its pending call_auth frames, innermost last
    outcome,         \* per task: what its coroutine returned or raised
    local,           \* per task: the coroutine's local variables
    obs              \* per task: history of the call_auth chain it is awaiting

vars == <<now, settings, _service_token, USER_CACHE, pc, stack, outcome, local, obs>>

-----------------------------------------------------------------------------
(* Values *)

\* Python's None, where a record is expected
None == [py |-> "None"]

\* Python's None, where a string is expected
NoneStr == "None"

Truthy(v) == v # None

Min(a, b) == IF a < b THEN a ELSE b

\* Half seconds per second
TimeScale == 2

\* timegm(datetime.utcnow().utctimetuple()): whole seconds, truncated
timegm_utcnow(t) == t \div TimeScale

\* math.ceil(time.time())
ceil_time(t) == (t + TimeScale - 1) \div TimeScale

RETRIABLE_CODES == {484, 503}

\* retries < 3 (line 544)
MAX_RETRIES == 3

\* backoff.on_exception(..., max_tries=4) (line 483)
BACKOFF_MAX_TRIES == 4

\* refresh the service token 60 s before it expires (lines 126, 173)
EXPIRY_MARGIN == 60

REST_API ==
    [get_authorization_code |-> <<"POST", TRUE>>,
     get_service_token      |-> <<"POST", TRUE>>,
     valid_token            |-> <<"POST", TRUE>>,
     get_user               |-> <<"POST", FALSE>>,
     get_users              |-> <<"POST", FALSE>>,
     search_user            |-> <<"POST", FALSE>>]

SettingKeys == {"server", "jwt_secret", "client_id", "client_password"}

\* app_settings["oauth_settings"]: the keys present, and auto_renew_token
Settings(keys, auto_renew_token) == [keys |-> keys, auto_renew_token |-> auto_renew_token]

\* bool() of a tuple: true unless it is empty
TruthyTuple(tuple) == Len(tuple) > 0

configured_AllKeys(s) ==
    /\ "server" \in s.keys /\ "jwt_secret" \in s.keys /\ "client_id" \in s.keys
    /\ "client_password" \in s.keys

\* OAuth.configured, lines 77-82, as `if not self.configured` reads it: the
\* property returns a pair (the comma of line 80), and a pair is true
configured(s) ==
    TruthyTuple(<<"server" \in s.keys /\ "jwt_secret" \in s.keys /\ "client_id" \in s.keys,
                  "client_password" \in s.keys>>)

-----------------------------------------------------------------------------
(* The model's bounds and the inputs the environment draws from *)

\* The deepest stack of call_auth frames: the server stops answering 484 to a
\* get_service_token request made at this depth
MaxDepth == 3

\* The answered requests of one call_auth chain if a renewal forced by 484 were
\* itself one bounded chain: 4 attempts, 3 of them with a renewal of 4 attempts
ChainRequestBound == (MAX_RETRIES + 1) * (MAX_RETRIES + 1)

\* obs.requests counts the answered requests of a chain up to this number
RequestCap == ChainRequestBound + 1

Tasks == {"c1", "r1", "r2", "loop", "v1", "v2", "g1"}

Statuses == {200, 404, 484, 500, 503}

\* Bodies of the non-200 responses
Texts == {"err1", "err2"}

\* Credentials the server issues, and their lifetimes in seconds
Creds == {"st1", "st2"}

Lifetimes == {60, 120}

Logins == {"alice", "bob"}

\* Transport-level exceptions of aiohttp: the first is also caught by
\* initialize's handler of line 131
TransportErrors == {"ClientConnectorError", "ClientError"}

\* The server a specification runs against: the statuses it answers with, the
\* credentials it issues and their lifetimes, and the depth of call_auth frames
\* at which it stops answering 484 to a renewal
Server(statuses, texts, creds, lifetimes, depth) ==
    [statuses |-> statuses, texts |-> texts, creds |-> creds, lifetimes |-> lifetimes,
     depth |-> depth]

\* What server `srv` may send back for `url` with `status` at time t
Bodies(url, status, t, srv) ==
    IF status # 200 THEN [text : srv.texts]
    ELSE IF url = "get_service_token"
         THEN [service_token : srv.creds,
               exp : {timegm_utcnow(t) + l : l \in srv.lifetimes}]
         ELSE [mail : Logins, roles : {"r1", "r2"}]

-----------------------------------------------------------------------------
(* Outcomes of a coroutine *)

Return(v) == [kind |-> "return", exc |-> NoneStr, value |-> v]

Raise(e, content) == [kind |-> "raise", exc |-> e, value |-> content]

Running == [kind |-> "running", exc |-> NoneStr, value |-> None]

\* lines 558-566 and 568-576
HTTPFailedDependency(message, retries, status, text) ==
    Raise("HTTPFailedDependency",
          [reason |-> "oauthServerFailure", message |-> message,
           retries |-> retries, status |-> status, text |-> text])

\* lines 581-583
GenericFailedDependency ==
    Raise("HTTPFailedDependency",
          [reason |-> "oauthServerFailure", message |-> "Failed to call oauth server"])

\* An exception raised inside the try of lines 542-583 (by the renewal of line
\* 549 or the recursive call of line 553): HTTPFailedDependency is re-raised,
\* any other Exception becomes the generic failure.  CancelledError is a
\* BaseException (Python 3.8 and later) and passes.
ExceptInTry(out) ==
    IF out.kind # "raise" \/ out.exc \in {"HTTPFailedDependency", "CancelledError"}
    THEN out
    ELSE GenericFailedDependency

-----------------------------------------------------------------------------
(* call_auth *)

\* One call_auth invocation and its recursive retries (retries), the tries the
\* backoff decorator made of the current attempt (tries), and where it waits:
\*   "request"  the aiohttp request of lines 495/518
\*   "pause"    asyncio.sleep(0.05), line 552
\*   "backoff"  the decorator's sleep between two tries
\*   "refresh"  await self.refresh_service_token(), line 549
\* via is "refresh" when refresh_service_token made the call.
Frame(url, params, headers, via) ==
    [url |-> url, params |-> params, headers |-> headers, via |-> via,
     retries |-> 0, tries |-> 1, phase |-> "request"]

\* The params of refresh_service_token's call (line 159)
RefreshParams == [grant_type |-> "service"]

NoHeaders == [Authorization |-> <<>>]

Top(s) == s[Len(s)]

Pop(s) == SubSeq(s, 1, Len(s) - 1)

SetTop(s, f) == [s EXCEPT ![Len(s)] = f]

\* The result of running a task's call_auth frames up to the next suspension:
\* the frames left, _service_token, the outcome when the outermost call has
\* finished (Running otherwise), and whether a renewal was forced (line 549)
Step(s, st, out, renewed) ==
    [stack |-> s, st |-> st, out |-> out, renewed |-> renewed]

refresh_service_token_KeepLaterExpiry(st, out) ==
    IF out.kind = "return"
    THEN IF Truthy(out.value)
         THEN [st |-> IF Truthy(st) /\ st.exp > out.value.exp
                      THEN [out.value EXCEPT !.exp = st.exp] ELSE out.value,
               out |-> Return([str |-> out.value.service_token])]
         ELSE [st |-> st, out |-> Return([str |-> NoneStr])]
    ELSE [st |-> st, out |-> out]

refresh_service_token_AlwaysStore(st, out) ==
    IF out.kind = "return"
    THEN [st |-> out.value, out |-> Return([str |-> NoneStr])]
    ELSE [st |-> st, out |-> out]

\* refresh_service_token, lines 161-167, once its call_auth has finished with out
refresh_service_token(st, out) ==
    IF out.kind = "return"
    THEN IF Truthy(out.value)
         THEN [st |-> out.value, out |-> Return([str |-> out.value.service_token])]
         ELSE [st |-> st, out |-> Return([str |-> NoneStr])]
    ELSE [st |-> st, out |-> out]

RECURSIVE Unwind_RenewedParams(_, _, _)
Unwind_RenewedParams(s, st, out) ==
    LET f    == Top(s)
        rest == Pop(s)
        r    == IF f.via = "refresh" THEN refresh_service_token(st, out)
                ELSE [st |-> st, out |-> out]
    IN  IF rest = <<>> THEN Step(<<>>, r.st, r.out, FALSE)
        ELSE IF r.out.kind = "return"
             THEN Step(SetTop(rest, [Top(rest) EXCEPT !.retries = @ + 1, !.tries = 1,
                                                      !.phase = "request",
                                                      !.params =
                                          IF "service_token" \in DOMAIN @ /\ Truthy(r.st)
                                          THEN [@ EXCEPT !.service_token = r.st.service_token]
                                          ELSE @]),
                       r.st, Running, FALSE)
             ELSE Unwind_RenewedParams(rest, r.st, ExceptInTry(r.out))

\* The innermost frame has finished with out: hand it to its caller.
RECURSIVE Unwind(_, _, _)
Unwind(s, st, out) ==
    LET f    == Top(s)
        rest == Pop(s)
        r    == IF f.via = "refresh" THEN refresh_service_token(st, out)
                ELSE [st |-> st, out |-> out]
    IN  IF rest = <<>> THEN Step(<<>>, r.st, r.out, FALSE)
        ELSE \* the caller is the call_auth suspended at line 549
             IF r.out.kind = "return"
             THEN \* line 553: the retry, whose request goes out at once
                  Step(SetTop(rest, [Top(rest) EXCEPT !.retries = @ + 1, !.tries = 1,
                                                      !.phase = "request"]),
                       r.st, Running, FALSE)
             ELSE Unwind(rest, r.st, ExceptInTry(r.out))

\* An exception raised by the request itself (outside the try of line 542) in
\* the invocation with `retries`: the invocations that called it recursively
\* hold it in their try.
RaiseFromRequest(s, st, out) ==
    Unwind(s, st, IF Top(s).retries > 0 THEN ExceptInTry(out) ELSE out)

call_auth_RenewOnAnyRetriable(s, st, status, body) ==
    LET f == Top(s) IN
    IF status = 200 THEN Unwind(s, st, Return(body))
    ELSE IF status \in RETRIABLE_CODES
    THEN IF f.retries < MAX_RETRIES
         THEN Step(Append(SetTop(s, [f EXCEPT !.phase = "refresh", !.tries = 1]),
                          Frame("get_service_token", RefreshParams, NoHeaders, "refresh")),
                   st, Running, TRUE)
         ELSE Unwind(s, st, HTTPFailedDependency("Failed to call oauth server",
                                                 f.retries, status, body.text))
    ELSE IF status >= 500
    THEN Unwind(s, st, HTTPFailedDependency("Unhandled oauth server error",
                                            f.retries, status, body.text))
    ELSE Unwind(s, st, Return(None))

call_auth_RetryServerErrors(s, st, status, body) ==
    LET f == Top(s) IN
    IF status = 200 THEN Unwind(s, st, Return(body))
    ELSE IF status \in RETRIABLE_CODES \/ status >= 500
    THEN IF f.retries < MAX_RETRIES
         THEN IF status = 484
              THEN Step(Append(SetTop(s, [f EXCEPT !.phase = "refresh", !.tries = 1]),
                               Frame("get_service_token", RefreshParams, NoHeaders, "refresh")),
                        st, Running, TRUE)
              ELSE Step(SetTop(s, [f EXCEPT !.phase = "pause", !.tries = 1]),
                        st, Running, FALSE)
         ELSE Unwind(s, st, HTTPFailedDependency("Failed to call oauth server",
                                                 f.retries, status, body.text))
    ELSE Unwind(s, st, Return(None))

call_auth_NoBudget(s, st, status, body) ==
    LET f == Top(s) IN
    IF status = 200 THEN Unwind(s, st, Return(body))
    ELSE IF status \in RETRIABLE_CODES
    THEN IF f.retries < MAX_RETRIES + 1
         THEN IF status = 484
              THEN Step(Append(SetTop(s, [f EXCEPT !.phase = "refresh", !.tries = 1]),
                               Frame("get_service_token", RefreshParams, NoHeaders, "refresh")),
                        st, Running, TRUE)
              ELSE Step(SetTop(s, [f EXCEPT !.phase = "pause", !.tries = 1]),
                        st, Running, FALSE)
         ELSE Unwind(s, st, HTTPFailedDependency("Failed to call oauth server",
                                                 f.retries, status, body.text))
    ELSE IF status >= 500
    THEN Unwind(s, st, HTTPFailedDependency("Unhandled oauth server error",
                                            f.retries, status, body.text))
    ELSE Unwind(s, st, Return(None))

call_auth_RaiseOnAnyError(s, st, status, body) ==
    LET f == Top(s) IN
    IF status = 200 THEN Unwind(s, st, Return(body))
    ELSE IF status \in RETRIABLE_CODES
    THEN IF f.retries < MAX_RETRIES
         THEN IF status = 484
              THEN Step(Append(SetTop(s, [f EXCEPT !.phase = "refresh", !.tries = 1]),
                               Frame("get_service_token", RefreshParams, NoHeaders, "refresh")),
                        st, Running, TRUE)
              ELSE Step(SetTop(s, [f EXCEPT !.phase = "pause", !.tries = 1]),
                        st, Running, FALSE)
         ELSE Unwind(s, st, HTTPFailedDependency("Failed to call oauth server",
                                                 f.retries, status, body.text))
    ELSE Unwind(s, st, HTTPFailedDependency("Unhandled oauth server error",
                                            f.retries, status, body.text))

\* call_auth from the response of its request on: lines 521-588
call_auth(s, st, status, body) ==
    LET f == Top(s) IN
    IF status = 200 THEN Unwind(s, st, Return(body))
    ELSE IF status \in RETRIABLE_CODES
    THEN IF f.retries < MAX_RETRIES
         THEN IF status = 484
              THEN \* refresh_service_token's request goes out at once
                   Step(Append(SetTop(s, [f EXCEPT !.phase = "refresh", !.tries = 1]),
                               Frame("get_service_token", RefreshParams, NoHeaders, "refresh")),
                        st, Running, TRUE)
              ELSE Step(SetTop(s, [f EXCEPT !.phase = "pause", !.tries = 1]),
                        st, Running, FALSE)
         ELSE Unwind(s, st, HTTPFailedDependency("Failed to call oauth server",
                                                 f.retries, status, body.text))
    ELSE IF status >= 500
    THEN Unwind(s, st, HTTPFailedDependency("Unhandled oauth server error",
                                            f.retries, status, body.text))
    ELSE Unwind(s, st, Return(None))

\* asyncio.sleep(0.05) is over: the recursive call of line 553 sends its request
call_auth_retry(s, st) ==
    Step(SetTop(s, [Top(s) EXCEPT !.retries = @ + 1, !.tries = 1, !.phase = "request"]),
         st, Running, FALSE)

backoff_on_exception_FiveTries(s, st, exc, giveup) ==
    LET f == Top(s) IN
    IF f.tries < BACKOFF_MAX_TRIES + 1 /\ ~giveup
    THEN Step(SetTop(s, [f EXCEPT !.phase = "backoff"]), st, Running, FALSE)
    ELSE RaiseFromRequest(s, st, Raise(exc, None))

\* The backoff decorator (line 483) on an OSError or ClientError of the request:
\* another try after a sleep, or the exception once max_tries or max_time is
\* reached (giveup: the 5 s of max_time are over)
backoff_on_exception(s, st, exc, giveup) ==
    LET f == Top(s) IN
    IF f.tries < BACKOFF_MAX_TRIES /\ ~giveup
    THEN Step(SetTop(s, [f EXCEPT !.phase = "backoff"]), st, Running, FALSE)
    ELSE RaiseFromRequest(s, st, Raise(exc, None))

\* The decorator's sleep is over: the same invocation again
backoff_retry(s, st) ==
    Step(SetTop(s, [Top(s) EXCEPT !.tries = @ + 1, !.phase = "request"]),
         st, Running, FALSE)

-----------------------------------------------------------------------------
(* Time *)

\* Time passes, to the next of the instants the specification looks at
Tick(instants) ==
    /\ \E g \in instants :
        /\ g > now
        /\ \A h \in instants : h > now => g <= h
        /\ now' = g
    /\ UNCHANGED <<settings, _service_token, USER_CACHE, pc, stack, outcome, local, obs>>

Seconds(n) == n * TimeScale

-----------------------------------------------------------------------------
(* The service token: refresh_service_token, service_token, initialize *)

\* refresh_service_token up to the request of its call_auth (lines 156-160 and
\* 487-520): the frame it waits on, or the KeyError of a missing setting
refresh_service_token_start(s) ==
    IF {"client_id", "client_password", "server"} \subseteq s.keys
    THEN Step(<<Frame("get_service_token", RefreshParams, NoHeaders, "refresh")>>,
              _service_token, Running, FALSE)
    ELSE Step(<<>>, _service_token, Raise("KeyError", None), FALSE)

service_token_fresh_AtExpiry(st, t) ==
    Truthy(st) /\ st.exp - EXPIRY_MARGIN >= timegm_utcnow(t)

\* The test of lines 171-173: a token is stored and expires more than 60 s from now
service_token_fresh(st, t) ==
    Truthy(st) /\ st.exp - EXPIRY_MARGIN > timegm_utcnow(t)

\* The locals of initialize: now (line 122), time_to_sleep (line 126), when the
\* sleep it is in ends, and whether the task has been cancelled
LoopLocal(now_, tts, wake, cancelled) ==
    [now_ |-> now_, time_to_sleep |-> tts, wake |-> wake, cancelled |-> cancelled]

\* asyncio.sleep(d) started at time t ends at
WakeAt(t, d) == IF d > 0 THEN t + Seconds(d) ELSE t

initialize_after_refresh_Unhandled(st, out, now_, t) ==
    IF out.kind = "return" /\ Truthy(st)
    THEN <<"sleep", st.exp - now_ - EXPIRY_MARGIN, WakeAt(t, st.exp - now_ - EXPIRY_MARGIN)>>
    ELSE IF out.kind = "raise" /\ out.exc = "ClientConnectorError"
    THEN <<"sleep10", 10, WakeAt(t, 10)>>
    ELSE <<"done", 0, t>>

\* initialize once refresh_service_token has finished with out (lines 125-136):
\* the sleep it goes to, as <<pc, time_to_sleep, wake>>, or "done"
initialize_after_refresh(st, out, now_, t) ==
    IF out.kind = "return"
    THEN IF Truthy(st)
         THEN <<"sleep", st.exp - now_ - EXPIRY_MARGIN,
                WakeAt(t, st.exp - now_ - EXPIRY_MARGIN)>>
         ELSE \* None["exp"]: TypeError, caught at line 134
              <<"sleep30", 30, WakeAt(t, 30)>>
    ELSE IF out.exc = "CancelledError" THEN <<"done", 0, t>>
    ELSE IF out.exc = "ClientConnectorError" THEN <<"sleep10", 10, WakeAt(t, 10)>>
    ELSE <<"sleep30", 30, WakeAt(t, 30)>>

-----------------------------------------------------------------------------
(* Inbound tokens and the JWT codec *)

\* What jwt.decode finds in a raw token string: whether it has the '.' of a
\* JWT, whether its signature verifies, its iat and exp (seconds) and its
\* claims (NoneStr: the claim is missing)
Jwt(dot, sig, iat, exp, login, token, name) ==
    [dot |-> dot, sig |-> sig, iat |-> iat, exp |-> exp,
     claims |-> [login |-> login, token |-> token, name |-> name]]

\* Far enough for a token never to expire in the time looked at
Never == 100000

RawTokens ==
    [alice   |-> Jwt(TRUE, TRUE, 0, Never, "alice", "ta", "Alice"),
     bob     |-> Jwt(TRUE, TRUE, 0, Never, "bob", "tb", "Bob"),
     early   |-> Jwt(TRUE, TRUE, 60, Never, "alice", "ta", "Alice"),
     short   |-> Jwt(TRUE, TRUE, 0, 60, "bob", "tb", "Bob"),
     skewed  |-> Jwt(TRUE, TRUE, Never, 60, "bob", "tb", "Bob"),
     wide    |-> Jwt(TRUE, TRUE, 0, Never, "bob", "tb::z", "Bob"),
     split   |-> Jwt(TRUE, TRUE, 0, Never, "bob::tb", "z", "Rob"),
     forged  |-> Jwt(TRUE, FALSE, 0, Never, "alice", "ta", "Alice"),
     nologin |-> Jwt(TRUE, TRUE, 0, Never, NoneStr, "tn", "Nobody"),
     opaque  |-> Jwt(FALSE, FALSE, 0, Never, NoneStr, NoneStr, NoneStr)]

\* The tokens whose login or token claim contains the "::" that separates the
\* components of a cache key
SeparatorTokens == {"wide", "split"}

\* The tokens handed to validate: {"type": ..., "token": ...}
InboundTokens ==
    [type : {"bearer"}, token : DOMAIN RawTokens \ SeparatorTokens]
        \cup {[type |-> "wstoken", token |-> "alice"], [type |-> "basic", token |-> "alice"]}

\* jwt.decode(raw, secret, algorithms, options) at time t: "ok" and the claims,
\* or the exception.  The signature is verified first, then iat, then exp.
jwt_decode(raw, t, verify_iat) ==
    LET j == RawTokens[raw] IN
    IF ~j.sig THEN "DecodeError"
    ELSE IF verify_iat /\ j.iat > timegm_utcnow(t) THEN "InvalidIssuedAtError"
    ELSE IF j.exp < timegm_utcnow(t) THEN "ExpiredSignatureError"
    ELSE "ok"

-----------------------------------------------------------------------------
(* The user cache *)

\* USER_CACHE_DURATION, line 43 (seconds)
USER_CACHE_DURATION == 120

\* LRU(1000), line 47: the capacity of the cache, scaled down
LRU_SIZE == 1

\* str() of a natural number, as the sequence of its digits
RECURSIVE str_int(_)
str_int(n) ==
    LET d == <<"0", "1", "2", "3", "4", "5", "6", "7", "8", "9">>[(n % 10) + 1] IN
    IF n < 10 THEN <<d>> ELSE Append(str_int(n \div 10), d)

\* math.ceil(a / b) for naturals
ceil_div(a, b) == (a + b - 1) \div b

\* A string as format() writes it: the sequence of its pieces
Spelling(str) ==
    CASE str = "tb::z" -> <<"tb", "::", "z">>
      [] str = "bob::tb" -> <<"bob", "::", "tb">>
      [] OTHER -> <<str>>

get_user_cache_key_NoTime(scope, login, token, t) ==
    scope \o <<"::">> \o login \o <<"::">> \o token

get_user_cache_key_NoBucket(scope, login, token, t) ==
    scope \o <<"::">> \o login \o <<"::">> \o token \o <<"::">> \o str_int(ceil_time(t))

get_user_cache_key_TwoDurations(scope, login, token, t) ==
    scope \o <<"::">> \o login \o <<"::">> \o token \o <<"::">>
          \o str_int(ceil_div(ceil_time(t), 2 * USER_CACHE_DURATION))

\* get_user_cache_key, lines 598-605: "{}::{}::{}::{}".format(scope, login,
\* token, bucket); strings are sequences of their pieces
get_user_cache_key(scope, login, token, t) ==
    scope \o <<"::">> \o login \o <<"::">> \o token \o <<"::">>
          \o str_int(ceil_div(ceil_time(t), USER_CACHE_DURATION))

\* key in USER_CACHE
lru_contains(c, k) == \E i \in 1..Len(c) : c[i].key = k

lru_index(c, k) == CHOOSE i \in 1..Len(c) : c[i].key = k

lru_without(c, i) == SubSeq(c, 1, i - 1) \o SubSeq(c, i + 1, Len(c))

\* USER_CACHE[key]: the entry becomes the most recently used
lru_get(c, k) ==
    LET i == lru_index(c, k) IN [value |-> c[i].user, cache |-> <<c[i]>> \o lru_without(c, i)]

\* USER_CACHE[key] = user: the least recently used entry goes when the cache is full
lru_set(c, k, user) ==
    LET e == [key |-> k, user |-> user]
        rest == IF lru_contains(c, k) THEN lru_without(c, lru_index(c, k)) ELSE c
    IN  SubSeq(<<e>> \o rest, 1, Min(Len(rest) + 1, LRU_SIZE))

\* OAuthGuillotinaUser(result, attr_id) with attr_id "mail" (lines 697-711), then
\* lines 684-685
OAuthGuillotinaUser(result, claims) ==
    [id |-> result.mail, roles |-> result.roles, name |-> claims.name, token |-> claims.token]

\* What validate has looked at: the inbound token, the container id, the time
\* of the lookup, the cache key, whether get_user was requested; and of the
\* validation of the same token the task ran before: when, under which key,
\* with which result, and whether that result is still the cache's entry
ValidateLocal(token, scope, at, key, called, prev, present) ==
    [token |-> token, scope |-> scope, at |-> at, key |-> key, called |-> called,
     prev |-> prev, present |-> present]

validate_decode_Unverified(token, scope, t, cache) ==
    LET j == RawTokens[token.token]
        key == get_user_cache_key(scope, Spelling(j.claims.login), Spelling(j.claims.token), t)
        res(out, k, c) == [out |-> out, key |-> k, cache |-> c]
    IN  IF j.exp < timegm_utcnow(t) THEN res(Raise("HTTPUnauthorized", None), <<>>, cache)
        ELSE IF j.claims.login = NoneStr THEN res(Return(None), <<>>, cache)
        ELSE IF lru_contains(cache, key)
        THEN res(Return(lru_get(cache, key).value), key, lru_get(cache, key).cache)
        ELSE res(Running, key, cache)

\* validate from the decoding of the token to the cache lookup, lines 616-643
\* and 690-693: the outcome ("running" on a miss), the key and the cache
validate_decode(token, scope, t, cache) ==
    LET j == RawTokens[token.token]
        first == jwt_decode(token.token, t, TRUE)
        decoded == IF first = "InvalidIssuedAtError"
                   THEN jwt_decode(token.token, t, FALSE) ELSE first
        key == get_user_cache_key(scope, Spelling(j.claims.login), Spelling(j.claims.token), t)
        res(out, k, c) == [out |-> out, key |-> k, cache |-> c]
    IN  IF first = "ExpiredSignatureError"
        THEN res(Raise("HTTPUnauthorized", None), <<>>, cache)
        ELSE IF decoded = "ExpiredSignatureError"
        THEN res(Raise("ExpiredSignatureError", None), <<>>, cache)
        ELSE IF decoded = "DecodeError" THEN res(Return(None), <<>>, cache)
        ELSE IF j.claims.login = NoneStr THEN res(Return(None), <<>>, cache)
        ELSE IF j.claims.token = NoneStr THEN res(Raise("KeyError", None), <<>>, cache)
        ELSE IF lru_contains(cache, key)
        THEN res(Return(lru_get(cache, key).value), key, lru_get(cache, key).cache)
        ELSE res(Running, key, cache)

validate_lookup_AnyType(token, scope, t, cache) ==
    IF ~RawTokens[token.token].dot
    THEN [out |-> Return(None), key |-> <<>>, cache |-> cache]
    ELSE validate_decode(token, scope, t, cache)

\* validate up to the cache lookup, lines 609-643: the checks of the type and
\* of the '.', then the decoding
validate_lookup(token, scope, t, cache) ==
    IF token.type \notin {"bearer", "wstoken"}
    THEN [out |-> Return(None), key |-> <<>>, cache |-> cache]
    ELSE IF ~RawTokens[token.token].dot
    THEN [out |-> Return(None), key |-> <<>>, cache |-> cache]
    ELSE validate_decode(token, scope, t, cache)

UserApiTimeout == [reason |-> "userApiTimeout", message |-> "Timeout authenticating with user api"]

validate_after_call_NoStore(loc, out, cache) ==
    LET claims == RawTokens[loc.token.token].claims IN
    IF out.kind = "raise"
    THEN [out |-> IF out.exc = "TimeoutError"
                  THEN Raise("HTTPFailedDependency", UserApiTimeout) ELSE out,
          cache |-> cache]
    ELSE IF Truthy(out.value) /\ out.value.mail = claims.login
    THEN [out |-> Return(OAuthGuillotinaUser(out.value, claims)), cache |-> cache]
    ELSE [out |-> Return(None), cache |-> cache]

validate_after_call_NoIdCheck(loc, out, cache) ==
    LET claims == RawTokens[loc.token.token].claims IN
    IF out.kind = "raise"
    THEN [out |-> IF out.exc = "TimeoutError"
                  THEN Raise("HTTPFailedDependency", UserApiTimeout) ELSE out,
          cache |-> cache]
    ELSE IF Truthy(out.value)
    THEN [out |-> Return(OAuthGuillotinaUser(out.value, claims)),
          cache |-> lru_set(cache, loc.key, OAuthGuillotinaUser(out.value, claims))]
    ELSE [out |-> Return(None), cache |-> cache]

\* validate once call_auth has finished with out, lines 671-693
validate_after_call(loc, out, cache) ==
    LET claims == RawTokens[loc.token.token].claims
        user == OAuthGuillotinaUser(out.value, claims)
    IN  IF out.kind = "raise"
        THEN [out |-> IF out.exc = "TimeoutError"
                      THEN Raise("HTTPFailedDependency", UserApiTimeout) ELSE out,
              cache |-> cache]
        ELSE IF Truthy(out.value) /\ user.id = claims.login
        THEN [out |-> Return(user), cache |-> lru_set(cache, loc.key, user)]
        ELSE [out |-> Return(None), cache |-> cache]

-----------------------------------------------------------------------------
(* Tasks *)

CallTasks == {"c1"}

Readers == {"r1", "r2"}

LoopTasks == {"loop"}

Validators == {"v1", "v2"}

UsersTasks == {"g1"}

\* The locals of get_users: whether it awaits the service_token property or
\* its call_auth, and the call it made (None before)
UsersLocal(stage, request) == [stage |-> stage, request |-> request]

\* The call of lines 182-186: call_auth("get_users", params, headers)
get_users_request(cred, scope, header) ==
    Frame("get_users", [service_token |-> cred, scope |-> scope], header, "direct")

\* The history kept of the call_auth chain a task awaits:
\*   requests      answered requests of the whole chain, renewals included
\*   attempts      answered requests of the outermost call
\*   allRetriable  every answer to the outermost call was 484 or 503
\*   unanswered    the outermost call ended on a request that got no answer
\*   renewRaised   a renewal forced by 484 raised
\*   last          the last answer: its status, the retries of the invocation
\*                 that got it, and whether it forced a renewal
\*   final         the answer to the outermost call that ended the chain
\*   exc           the exception of the request that ended the chain unanswered
\*   renewal       the last response a renewal of the chain returned
NoAnswer == [status |-> 0, body |-> None, retries |-> 0, renewed |-> FALSE]

NoObs ==
    [requests |-> 0, attempts |-> 0, allRetriable |-> TRUE, unanswered |-> FALSE,
     renewRaised |-> FALSE, last |-> NoAnswer, final |-> NoAnswer, exc |-> NoneStr,
     renewal |-> None]

ObsCall(o, s, status, body, r) ==
    LET a == [status |-> status, body |-> body, retries |-> Top(s).retries,
              renewed |-> r.renewed]
        root == Len(s) = 1
    IN  [o EXCEPT !.requests = Min(@ + 1, RequestCap),
                  !.attempts = IF root THEN @ + 1 ELSE @,
                  !.allRetriable = IF root THEN @ /\ status \in RETRIABLE_CODES ELSE @,
                  !.renewRaised = @ \/ (~root /\ r.out.kind = "raise"),
                  !.last = [a EXCEPT !.body = None],
                  !.final = IF root /\ r.out.kind # "running" THEN a ELSE @]

\* The history is kept in full for the callers of the dispatcher; of a reader
\* of the service token only the final answer, of the renewal loop nothing
ObsAnswer(t, o, s, status, body, r) ==
    IF t \in CallTasks THEN ObsCall(o, s, status, body, r)
    ELSE IF t \in LoopTasks THEN o
    ELSE [o EXCEPT !.final = ObsCall(o, s, status, body, r).final]

\* Of the renewal loop and of get_users the history keeps the response of the
\* renewals: the decoded body of a 200 to a get_service_token request
ObsRenewal(t, o, s, status, body) ==
    IF t \in LoopTasks \cup UsersTasks /\ Top(s).url = "get_service_token" /\ status = 200
    THEN [o EXCEPT !.renewal = body]
    ELSE o

ObsNoAnswer(t, o, s, r) ==
    IF t \notin CallTasks THEN o
    ELSE [o EXCEPT !.unanswered = @ \/ (Len(s) = 1 /\ r.out.kind = "raise"),
                   !.renewRaised = @ \/ (Len(s) > 1 /\ r.out.kind = "raise")]

\* What the awaiting coroutine of task t does when its chain has run to r:
\* initialize goes on with lines 125-136; service_token and a caller of
\* call_auth itself (get_users, search_users, ...) return what they got.
Continue(t, r) ==
    IF r.out.kind = "running"
    THEN UNCHANGED <<pc, outcome, local, USER_CACHE>>
    ELSE IF t \in LoopTasks
    THEN LET nxt == initialize_after_refresh(r.st, r.out, local[t].now_, now) IN
         /\ pc' = [pc EXCEPT ![t] = nxt[1]]
         /\ local' = [local EXCEPT ![t].time_to_sleep = nxt[2], ![t].wake = nxt[3]]
         /\ outcome' = [outcome EXCEPT ![t] = IF nxt[1] = "done" THEN Return(None) ELSE @]
         /\ UNCHANGED USER_CACHE
    ELSE IF t \in UsersTasks /\ local[t].stage = "service_token" /\ r.out.kind = "return"
    THEN \* get_users goes on from line 184 to the request of its call_auth
         /\ local' = [local EXCEPT ![t] =
                [stage |-> "call",
                 request |-> get_users_request(r.out.value.str, local[t].request.params.scope,
                                               local[t].request.headers)]]
         /\ UNCHANGED <<pc, outcome, USER_CACHE>>
    ELSE IF t \in Validators
    THEN LET v == validate_after_call(local[t], r.out, USER_CACHE) IN
         /\ pc' = [pc EXCEPT ![t] = "done"]
         /\ outcome' = [outcome EXCEPT ![t] = v.out]
         /\ USER_CACHE' = v.cache
         /\ UNCHANGED local
    ELSE /\ pc' = [pc EXCEPT ![t] = "done"]
         /\ outcome' = [outcome EXCEPT ![t] = r.out]
         /\ UNCHANGED <<local, USER_CACHE>>

Awaiting(t, phase) ==
    /\ pc[t] = "await"
    /\ stack[t] # <<>>
    /\ Top(stack[t]).phase = phase

\* The frames of task t when its chain has run to r
StackAfter(t, r) ==
    IF t \in UsersTasks /\ r.out.kind = "return" /\ local[t].stage = "service_token"
    THEN <<get_users_request(r.out.value.str, local[t].request.params.scope,
                             local[t].request.headers)>>
    ELSE r.stack

Apply(t, r) ==
    /\ stack' = [stack EXCEPT ![t] = StackAfter(t, r)]
    /\ _service_token' = r.st
    /\ Continue(t, r)
    /\ UNCHANGED <<now, settings>>

\* The operation of the request task t waits for
AwaitedUrl(t) == IF stack[t] = <<>> THEN NoneStr ELSE Top(stack[t]).url

\* The server answers the request task t waits for; it does not answer 484 to
\* a renewal `depth` frames deep
Respond(t, status, body, depth) ==
    /\ Awaiting(t, "request")
    /\ (status = 484 /\ Top(stack[t]).retries < MAX_RETRIES) => Len(stack[t]) < depth
    /\ LET r == call_auth(stack[t], _service_token, status, body) IN
       /\ Apply(t, r)
       /\ obs' = [obs EXCEPT ![t] = ObsRenewal(t, ObsAnswer(t, @, stack[t], status, body, r),
                                                stack[t], status, body)]

\* The request fails with an OSError or ClientError
\* Of the renewal loop the history keeps the exception its request raised
ObsRaised(t, o, exc, r) ==
    IF t \in LoopTasks /\ r.out.kind = "raise" THEN [o EXCEPT !.exc = exc] ELSE o

TransportError(t, exc, giveup) ==
    /\ Awaiting(t, "request")
    /\ LET r == backoff_on_exception(stack[t], _service_token, exc, giveup) IN
       /\ Apply(t, r)
       /\ obs' = [obs EXCEPT ![t] = ObsRaised(t, ObsNoAnswer(t, @, stack[t], r), exc, r)]

\* The request exceeds timeout=self.timeout: asyncio.TimeoutError, which the
\* backoff decorator does not retry
Timeout(t) ==
    /\ Awaiting(t, "request")
    /\ LET r == RaiseFromRequest(stack[t], _service_token, Raise("TimeoutError", None)) IN
       /\ Apply(t, r)
       /\ obs' = [obs EXCEPT ![t] =
                     ObsRaised(t, ObsNoAnswer(t, @, stack[t], r), "TimeoutError", r)]

\* asyncio.sleep(0.05) returns
PauseOver(t) ==
    /\ Awaiting(t, "pause")
    /\ Apply(t, call_auth_retry(stack[t], _service_token))
    /\ UNCHANGED obs

\* The backoff decorator's sleep returns
BackoffOver(t) ==
    /\ Awaiting(t, "backoff")
    /\ Apply(t, backoff_retry(stack[t], _service_token))
    /\ UNCHANGED obs

\* The coroutine's result has been consumed: the task can run another one
Finish(t) ==
    /\ pc[t] = "done"
    /\ pc' = [pc EXCEPT ![t] = "idle"]
    /\ outcome' = [outcome EXCEPT ![t] = Running]
    /\ local' = [local EXCEPT ![t] = None]
    /\ obs' = [obs EXCEPT ![t] = NoObs]
    /\ UNCHANGED <<now, settings, _service_token, USER_CACHE, stack>>

\* The server answers a request of one of the tasks T
Answer(T, srv) ==
    \E t \in T, status \in srv.statuses :
        \E body \in Bodies(AwaitedUrl(t), status, now, srv) :
            Respond(t, status, body, srv.depth)

\* A request of one of the tasks T fails at the transport level or times out
Fail(T) ==
    \E t \in T :
        \/ \E exc \in TransportErrors, giveup \in BOOLEAN : TransportError(t, exc, giveup)
        \/ Timeout(t)
        \/ BackoffOver(t)

-----------------------------------------------------------------------------
(* A caller of the dispatcher *)

\* call_auth(url, params, headers) up to its request: lines 487-520
call_auth_start(t, url, params, headers) ==
    /\ pc[t] = "idle"
    /\ IF "server" \in settings.keys
       THEN /\ stack' = [stack EXCEPT ![t] = <<Frame(url, params, headers, "direct")>>]
            /\ pc' = [pc EXCEPT ![t] = "await"]
            /\ UNCHANGED outcome
       ELSE \* self.server: KeyError, line 490
            /\ pc' = [pc EXCEPT ![t] = "done"]
            /\ outcome' = [outcome EXCEPT ![t] = Raise("KeyError", None)]
            /\ UNCHANGED stack
    /\ obs' = [obs EXCEPT ![t] = NoObs]
    /\ UNCHANGED <<now, settings, _service_token, USER_CACHE, local>>

CallUrls == {"get_user", "get_users"}

Call ==
    \E t \in CallTasks, url \in CallUrls :
        call_auth_start(t, url, [scope |-> <<"root">>], [Authorization |-> <<"Bearer ", "alice">>])

InitTasks ==
    /\ pc = [t \in Tasks |-> "idle"]
    /\ stack = [t \in Tasks |-> <<>>]
    /\ outcome = [t \in Tasks |-> Running]
    /\ local = [t \in Tasks |-> None]
    /\ obs = [t \in Tasks |-> NoObs]

InitCall ==
    /\ now = 0
    /\ settings = Settings(SettingKeys, TRUE)
    /\ _service_token = None
    /\ USER_CACHE = <<>>
    /\ InitTasks

NextCall ==
    \/ Call
    \/ Answer(CallTasks, Server(Statuses, Texts, Creds, {120}, MaxDepth))
    \/ Fail(CallTasks)
    \/ \E t \in CallTasks : PauseOver(t) \/ Finish(t)

\* The dispatcher alone: one caller, any server
SpecCall == InitCall /\ [][NextCall]_vars

-----------------------------------------------------------------------------
(* The service token: its readers and the renewal loop *)

\* The service_token property, lines 169-175
service_token(t) ==
    /\ pc[t] = "idle"
    /\ UNCHANGED <<local, obs>>
    /\ IF service_token_fresh(_service_token, now)
       THEN /\ pc' = [pc EXCEPT ![t] = "done"]
            /\ outcome' = [outcome EXCEPT ![t] = Return([str |-> _service_token.service_token])]
            /\ UNCHANGED stack
       ELSE LET r == refresh_service_token_start(settings) IN
            /\ stack' = [stack EXCEPT ![t] = r.stack]
            /\ pc' = [pc EXCEPT ![t] = IF r.out.kind = "running" THEN "await" ELSE "done"]
            /\ outcome' = [outcome EXCEPT ![t] = r.out]
    /\ UNCHANGED <<now, settings, _service_token, USER_CACHE>>

\* One turn of the while loop of line 120, from its top to the first suspension
initialize_iteration(t, cancelled) ==
    LET now_ == timegm_utcnow(now)
        r    == refresh_service_token_start(settings)
        nxt  == initialize_after_refresh(_service_token, r.out, now_, now)
    IN  /\ stack' = [stack EXCEPT ![t] = r.stack]
        /\ IF r.out.kind = "running"
           THEN /\ pc' = [pc EXCEPT ![t] = "await"]
                /\ local' = [local EXCEPT ![t] = LoopLocal(now_, 0, now, cancelled)]
           ELSE /\ pc' = [pc EXCEPT ![t] = nxt[1]]
                /\ local' = [local EXCEPT ![t] = LoopLocal(now_, nxt[2], nxt[3], cancelled)]
        /\ obs' = [obs EXCEPT ![t] = NoObs]
        /\ UNCHANGED <<now, settings, _service_token, USER_CACHE, outcome>>

\* initialize, lines 111-120
initialize(t) ==
    /\ pc[t] = "idle"
    /\ outcome[t] = Running
    /\ IF settings.auto_renew_token = FALSE \/ ~configured(settings)
       THEN /\ pc' = [pc EXCEPT ![t] = "done"]
            /\ outcome' = [outcome EXCEPT ![t] = Return(None)]
            /\ local' = [local EXCEPT ![t] = LoopLocal(0, 0, now, FALSE)]
            /\ UNCHANGED <<now, settings, _service_token, USER_CACHE, stack, obs>>
       ELSE initialize_iteration(t, FALSE)

\* A sleep of initialize is over (lines 127, 133, 136): the next turn
initialize_wake(t) ==
    /\ pc[t] \in {"sleep", "sleep10", "sleep30"}
    /\ now >= local[t].wake
    /\ initialize_iteration(t, local[t].cancelled)

\* task.cancel() while initialize waits in one of its own sleeps: the sleep of
\* line 127 is inside the try, those of lines 133 and 136 are in the handlers
initialize_cancel_sleep(t) ==
    /\ pc[t] \in {"sleep", "sleep10", "sleep30"}
    /\ ~local[t].cancelled
    /\ pc' = [pc EXCEPT ![t] = "done"]
    /\ outcome' = [outcome EXCEPT ![t] =
           IF pc[t] = "sleep" THEN Return(None) ELSE Raise("CancelledError", None)]
    /\ local' = [local EXCEPT ![t].cancelled = TRUE]
    /\ UNCHANGED <<now, settings, _service_token, USER_CACHE, stack, obs>>

\* task.cancel() while initialize waits in refresh_service_token: the
\* CancelledError is raised where the innermost call_auth is suspended
initialize_cancel_await(t) ==
    /\ pc[t] = "await"
    /\ stack[t] # <<>>
    /\ ~local[t].cancelled
    /\ LET r == RaiseFromRequest(stack[t], _service_token, Raise("CancelledError", None))
           nxt == initialize_after_refresh(r.st, r.out, local[t].now_, now) IN
       /\ stack' = [stack EXCEPT ![t] = r.stack]
       /\ _service_token' = r.st
       /\ pc' = [pc EXCEPT ![t] = nxt[1]]
       /\ local' = [local EXCEPT ![t].time_to_sleep = nxt[2], ![t].wake = nxt[3],
                                 ![t].cancelled = TRUE]
       /\ outcome' = [outcome EXCEPT ![t] = IF nxt[1] = "done" THEN Return(None) ELSE @]
    /\ UNCHANGED <<now, settings, USER_CACHE, obs>>

\* The configurations initialize may find: complete, auto renewal switched
\* off, and with keys missing
Configs ==
    {Settings(SettingKeys, TRUE), Settings(SettingKeys, FALSE),
     Settings(SettingKeys \ {"jwt_secret"}, TRUE),
     Settings(SettingKeys \ {"client_password"}, TRUE),
     Settings({}, TRUE)}

\* The instants (in half seconds) the loop is looked at
LoopTimes == {0, 20, 60, 120}

\* The deepest stack of call_auth frames of the renewal loop and of a reader
TokenDepth == 2

InitLoop ==
    /\ now = 0
    /\ settings \in Configs
    /\ _service_token = None
    /\ USER_CACHE = <<>>
    /\ InitTasks

NextLoop ==
    \/ \E t \in LoopTasks :
           \/ initialize(t)
           \/ initialize_wake(t)
           \/ initialize_cancel_sleep(t)
           \/ initialize_cancel_await(t)
           \/ PauseOver(t)
    \/ Answer(LoopTasks, Server(Statuses, Texts, {"st1"}, Lifetimes, TokenDepth))
    \/ Fail(LoopTasks)
    \/ Tick(LoopTimes)

\* The renewal loop alone, with any configuration, any server, and cancellation
SpecLoop == InitLoop /\ [][NextLoop]_vars

\* The same under the event loop's scheduling: time passes, a sleep that is over
\* returns, a request ends (answered, failed or timed out)
SpecLoopFair ==
    /\ SpecLoop
    /\ WF_vars(Tick(LoopTimes))
    /\ WF_vars(\E t \in LoopTasks : initialize_wake(t))

\* The instants (in half seconds) the readers are looked at: 59.5 s and 60 s
\* are the two sides of the expiry margin of a token issued at 0 for 120 s
ReaderTimes == {0, 119, 120}

\* The statuses the server answers the readers' renewals with
ReaderStatuses == {200, 404, 484, 500, 503}

InitReaders ==
    /\ now = 0
    /\ settings \in {Settings(SettingKeys, TRUE), Settings({}, TRUE)}
    /\ _service_token = None
    /\ USER_CACHE = <<>>
    /\ InitTasks

NextReaders ==
    \/ \E t \in Readers : service_token(t) \/ PauseOver(t) \/ Finish(t)
    \/ Answer(Readers, Server(ReaderStatuses, Texts, Creds, Lifetimes, TokenDepth))
    \/ Tick(ReaderTimes)

\* Two concurrent readers of the service_token property
SpecReaders == InitReaders /\ [][NextReaders]_vars

-----------------------------------------------------------------------------
(* get_users *)

\* get_users(request), lines 177-187, up to its first suspension: the request
\* of its call_auth when the stored service token is fresh, that of the renewal
\* otherwise
get_users(t, scope, header) ==
    /\ pc[t] = "idle"
    /\ IF service_token_fresh(_service_token, now)
       THEN LET f == get_users_request(_service_token.service_token, scope, header) IN
            /\ stack' = [stack EXCEPT ![t] = <<f>>]
            /\ pc' = [pc EXCEPT ![t] = "await"]
            /\ local' = [local EXCEPT ![t] = UsersLocal("call", f)]
            /\ UNCHANGED outcome
       ELSE LET r == refresh_service_token_start(settings) IN
            /\ stack' = [stack EXCEPT ![t] = r.stack]
            /\ pc' = [pc EXCEPT ![t] = IF r.out.kind = "running" THEN "await" ELSE "done"]
            /\ outcome' = [outcome EXCEPT ![t] = r.out]
            /\ local' = [local EXCEPT ![t] =
                   UsersLocal("service_token", get_users_request(NoneStr, scope, header))]
    /\ obs' = [obs EXCEPT ![t] = NoObs]
    /\ UNCHANGED <<now, settings, _service_token, USER_CACHE>>

NextUsers ==
    \/ \E t \in UsersTasks :
           \/ get_users(t, <<"root">>, [Authorization |-> <<"Bearer ", "alice">>])
           \/ PauseOver(t)
           \/ Finish(t)
    \/ Answer(UsersTasks, Server(Statuses, {"err1"}, Creds, {120}, TokenDepth))
    \/ Tick(ReaderTimes)

\* One request handler listing the users again and again
SpecUsers == InitCall /\ [][NextUsers]_vars

\* The tasks that renew the service token side by side
Renewers == LoopTasks \cup UsersTasks

\* The instants (in half seconds) the renewals are looked at
RenewalTimes == {0, 20}

NextRenewals ==
    \/ \E t \in LoopTasks : initialize(t) \/ initialize_wake(t)
    \/ \E t \in UsersTasks :
           get_users(t, <<"root">>, [Authorization |-> <<"Bearer ", "alice">>]) \/ Finish(t)
    \/ Answer(Renewers, Server({200, 484}, {"err1"}, Creds, Lifetimes, TokenDepth))
    \/ Tick(RenewalTimes)

\* The renewal loop beside a request handler that reads the service token and
\* whose calls are answered 484
SpecRenewals == InitCall /\ [][NextRenewals]_vars

-----------------------------------------------------------------------------
(* A caller of refresh_service_token *)

\* What the caller remembers: the ServiceToken stored when it made the call
RefreshLocal(before) == [before |-> before]

\* await self.refresh_service_token(), as lines 124 and 175 do, up to the request
refresh_service_token_call(t) ==
    /\ pc[t] = "idle"
    /\ LET r == refresh_service_token_start(settings) IN
       /\ stack' = [stack EXCEPT ![t] = r.stack]
       /\ pc' = [pc EXCEPT ![t] = IF r.out.kind = "running" THEN "await" ELSE "done"]
       /\ outcome' = [outcome EXCEPT ![t] = r.out]
    /\ local' = [local EXCEPT ![t] = RefreshLocal(_service_token)]
    /\ UNCHANGED <<now, settings, _service_token, USER_CACHE, obs>>

Refreshers == {"r1"}

InitRefresh ==
    /\ now = 0
    /\ settings = Settings(SettingKeys, TRUE)
    /\ _service_token = None
    /\ USER_CACHE = <<>>
    /\ InitTasks

NextRefresh ==
    \/ \E t \in Refreshers : refresh_service_token_call(t) \/ PauseOver(t) \/ Finish(t)
    \/ Answer(Refreshers, Server(Statuses, {"err1"}, Creds, {120}, TokenDepth))
    \/ Fail(Refreshers)

\* One caller renewing the service token again and again
SpecRefresh == InitRefresh /\ [][NextRefresh]_vars

-----------------------------------------------------------------------------
(* Validation of inbound tokens *)

\* task_vars.container: the ids of the containers requests come for
Scopes == {<<"root">>, <<"db">>}

get_user_request_AsService(token, scope) ==
    Frame("get_user",
          [scope |-> scope, user |-> RawTokens[token.token].claims.login], NoHeaders, "direct")

\* The call of lines 660-670: call_auth("get_user", params, headers)
get_user_request(token, scope) ==
    Frame("get_user",
          [scope |-> scope, user |-> RawTokens[token.token].claims.login],
          [Authorization |-> <<"Bearer ", token.token>>], "direct")

\* validate(token) up to its first suspension point, lines 607-670, by a task
\* that validated the same token before (prev) or not (None)
validate_run(t, token, scope, prev) ==
    LET v == validate_lookup(token, scope, now, USER_CACHE)
        present == /\ prev # None
                   /\ prev.out.kind = "return"
                   /\ \E i \in 1..Len(USER_CACHE) :
                          USER_CACHE[i] = [key |-> prev.key, user |-> prev.out.value]
        claims == RawTokens[token.token].claims
    IN  /\ local' = [local EXCEPT ![t] = ValidateLocal(token, scope, now, v.key,
                                                        v.out.kind = "running", prev, present)]
        /\ obs' = [obs EXCEPT ![t] = NoObs]
        /\ USER_CACHE' = v.cache
        /\ outcome' = [outcome EXCEPT ![t] = v.out]
        /\ IF v.out.kind = "running"
           THEN /\ pc' = [pc EXCEPT ![t] = "await"]
                /\ stack' = [stack EXCEPT ![t] = <<get_user_request(token, scope)>>]
           ELSE /\ pc' = [pc EXCEPT ![t] = "done"]
                /\ UNCHANGED stack
        /\ UNCHANGED <<now, settings, _service_token>>

validate(t, tokens, scopes) ==
    /\ pc[t] = "idle"
    /\ \E token \in tokens, scope \in scopes : validate_run(t, token, scope, None)

\* The same task validates its token again, in the same container
validate_again(t) ==
    /\ pc[t] = "done"
    /\ validate_run(t, local[t].token, local[t].scope,
                    [at |-> local[t].at, key |-> local[t].key, out |-> outcome[t]])

\* The handler whose successive validations of a token are compared
Revalidators == {"v1"}

\* The tokens of the requests the other handlers serve meanwhile
OtherTokens == {tk \in InboundTokens : tk.type = "bearer" /\ tk.token \in {"alice", "bob"}}

ValidateTimes == {1, 240, 241}

ValidateStatuses == {200, 404, 500}

InitValidate ==
    /\ now = 1
    /\ settings = Settings(SettingKeys, TRUE)
    /\ _service_token = None
    /\ USER_CACHE = <<>>
    /\ InitTasks

NextValidate ==
    \/ \E t \in Validators : Timeout(t) \/ Finish(t)
    \/ \E t \in Revalidators : validate(t, InboundTokens, {<<"root">>}) \/ validate_again(t)
    \/ \E t \in Validators \ Revalidators : validate(t, OtherTokens, {<<"root">>})
    \/ Answer(Validators, Server(ValidateStatuses, {"err1"}, {"st1"}, {120}, TokenDepth))
    \/ Tick(ValidateTimes)

\* Two request handlers validating inbound tokens
SpecValidate == InitValidate /\ [][NextValidate]_vars

NextRevalidate ==
    \/ \E t \in Revalidators :
           \/ validate(t, InboundTokens, {<<"root">>})
           \/ validate_again(t)
           \/ PauseOver(t)
           \/ Timeout(t)
           \/ Finish(t)
    \/ Answer(Revalidators, Server(Statuses, {"err1"}, {"st1"}, {120}, TokenDepth))
    \/ Tick(ValidateTimes)

\* One request handler validating tokens one after the other, any server
SpecRevalidate == InitValidate /\ [][NextRevalidate]_vars

\* Bob's token, and two tokens with "::" in a claim
IsolateTokens == [type : {"bearer"}, token : {"bob"} \cup SeparatorTokens]

NextIsolate ==
    \/ \E t \in Validators : validate(t, IsolateTokens, Scopes) \/ Finish(t)
    \/ Answer(Validators, Server({200, 404}, {"err1"}, {"st1"}, {120}, TokenDepth))
    \/ Tick(ValidateTimes)

\* Two request handlers, two containers, tokens with any claims
SpecIsolate == InitValidate /\ [][NextIsolate]_vars

-----------------------------------------------------------------------------
(* Claims about the dispatcher, under SpecCall *)

\* Task t's call_auth has resolved and every attempt of it was answered, each
\* time with a retriable status
AllAttemptsRetriable(t) ==
    /\ pc[t] = "done"
    /\ obs[t].attempts >= 1
    /\ obs[t].allRetriable
    /\ ~obs[t].unanswered

\* The dependency failure of exhausted retries: the original attempt and 3
\* retries were answered, and the payload has retries = 3 and the status and
\* body of the last answer
ExhaustedFailure(t) ==
    /\ obs[t].attempts = MAX_RETRIES + 1
    /\ outcome[t] = HTTPFailedDependency("Failed to call oauth server", MAX_RETRIES,
                                         obs[t].final.status, obs[t].final.body.text)

\* C3: one call_auth invocation resolves after a bounded number of answered
\* requests, the get_service_token requests of its forced renewals included: no
\* more than the retry budget allows (4 attempts, 3 renewals of 4 attempts).
C3_BoundedRequests ==
    \A t \in CallTasks : obs[t].requests <= ChainRequestBound

\* C4, as claimed: when every attempt of a call is answered 484 or 503, the call
\* issues the original attempt and exactly 3 retries, then fails with the
\* dependency failure carrying retries = 3 and the last status and body.
C4_ExhaustedAsClaimed ==
    \A t \in CallTasks : AllAttemptsRetriable(t) => ExhaustedFailure(t)

\* C4, amended: the same, provided every renewal forced by a 484 returned (a
\* renewal that raises ends the call at once, with the renewal's own error).
C4_Exhausted ==
    \A t \in CallTasks :
        (AllAttemptsRetriable(t) /\ ~obs[t].renewRaised) => ExhaustedFailure(t)

\* A call whose four attempts were all answered 484, each renewal returning
C4_Witness ==
    \E t \in CallTasks :
        /\ AllAttemptsRetriable(t) /\ ~obs[t].renewRaised
        /\ obs[t].final.status = 484
        /\ obs[t].requests > MAX_RETRIES + 1
        /\ outcome[t].exc = "HTTPFailedDependency"

\* The third attempt of a call was answered 200 (so the first two were answered
\* 484 or 503): the call returns the decoded body of that answer
ThirdAttemptSucceeds(t) ==
    (pc[t] = "done" /\ obs[t].attempts = 3 /\ obs[t].final.status = 200)
        => outcome[t] = Return(obs[t].final.body)

\* C5, as claimed: retriable, retriable, 200 returns the successful result, and
\* a renewal is forced exactly on the attempts answered 484.
C5_RenewalAsClaimed ==
    \A t \in CallTasks :
        /\ ThirdAttemptSucceeds(t)
        /\ obs[t].last.status # 0 => (obs[t].last.renewed <=> obs[t].last.status = 484)

\* C5, amended: retriable, retriable, 200 returns the successful result, and a
\* renewal is forced exactly on the attempts answered 484 that have a retry left
\* (retries < 3): never on 503 or any other status, and not on a 484 that
\* exhausts the budget.
C5_Renewal ==
    \A t \in CallTasks :
        /\ ThirdAttemptSucceeds(t)
        /\ obs[t].last.status # 0 =>
               (obs[t].last.renewed <=>
                    (obs[t].last.status = 484 /\ obs[t].last.retries < MAX_RETRIES))

\* 484, 503 (or 484), 200: the call returned after at least one forced renewal
C5_Witness ==
    \E t \in CallTasks :
        /\ pc[t] = "done" /\ obs[t].attempts = 3 /\ obs[t].final.status = 200
        /\ outcome[t].kind = "return"
        /\ obs[t].requests > 3

-----------------------------------------------------------------------------
(* Claims about the service_token property, under SpecReaders *)

\* A token is stored and its expiry is more than 60 seconds after now
MoreThanMarginLeft ==
    /\ _service_token # None
    /\ Seconds(_service_token.exp) - now > Seconds(60)

\* Reader t reads the property in this step
Reads(t) == pc[t] = "idle" /\ pc'[t] # "idle"

\* Reader t's renewal ends in this step with a value returned
RenewalReturns(t) == pc[t] = "await" /\ pc'[t] = "done" /\ outcome'[t].kind = "return"

\* The read returns the stored credential at once, no request made, exactly
\* when more than the margin is left; otherwise it goes for a renewal
ReadsStoredOrRenews(t) ==
    Reads(t) =>
        IF MoreThanMarginLeft
        THEN /\ pc'[t] = "done"
             /\ outcome'[t] = Return([str |-> _service_token.service_token])
             /\ stack'[t] = <<>>
        ELSE \/ pc'[t] = "await" /\ Top(stack'[t]).url = "get_service_token"
             \/ pc'[t] = "done" /\ outcome'[t] = Raise("KeyError", None)

C7_SingleRenewal ==
    Cardinality({t \in Readers : pc[t] = "await"}) <= 1

-----------------------------------------------------------------------------
(* Claims about the renewal loop, under SpecLoop and SpecLoopFair *)

Cancelled(t) == pc[t] # "idle" /\ local[t].cancelled

\* initialize entered the loop of line 120
Started(t) == pc[t] \in {"await", "sleep", "sleep10", "sleep30"}

\* The loop sleeps after an error of a renewal it could send, and its sleep
\* ends within the time the specification looks at
SleepsAfterError(t) ==
    /\ pc[t] \in {"sleep10", "sleep30"}
    /\ {"client_id", "client_password", "server"} \subseteq settings.keys
    /\ \E g \in LoopTimes : local[t].wake <= g
    /\ ~local[t].cancelled

\* C8: once started, the renewal loop ends only by cancellation, and after an
\* ordinary remote error (connection refused, dependency failure, no token
\* returned) it goes on to attempt another renewal.
C8_LoopKeepsRunning ==
    /\ [][\A t \in LoopTasks : (Started(t) /\ pc'[t] = "done") => local'[t].cancelled]_vars
    /\ \A t \in LoopTasks : SleepsAfterError(t) ~> (pc[t] = "await" \/ Cancelled(t))

\* The loop is in flight with a renewal again after a connection error
C8_Witness ==
    \E t \in LoopTasks :
        /\ pc[t] = "await"
        /\ local[t].now_ >= 10
        /\ _service_token = None
        /\ ~local[t].cancelled

\* C9: cancelling the loop at any of its suspension points stops it cleanly:
\* initialize returns normally, no exception leaves it.
C9_CleanCancel ==
    \A t \in LoopTasks : Cancelled(t) => (pc[t] = "done" /\ outcome[t].kind = "return")

\* C10: with configuration absent the loop never starts: initialize returns
\* without attempting a renewal.
C10_Inert ==
    ~(SettingKeys \subseteq settings.keys) =>
        \A t \in LoopTasks : pc[t] \in {"idle", "done"} /\ outcome[t].kind # "raise"

-----------------------------------------------------------------------------
(* Claims about the validation of tokens, under SpecValidate *)

\* timeBucket = ceil(ceil(now)/cacheDurationSeconds)
TimeBucket(t) == ceil_div(ceil_time(t), USER_CACHE_DURATION)

\* Task t has validated a token and then, within the same time bucket and in
\* the same container, validated it again
Revalidated(t) ==
    /\ pc[t] = "done"
    /\ local[t].prev # None
    /\ TimeBucket(local[t].prev.at) = TimeBucket(local[t].at)

ReturnedUser(out) == out.kind = "return" /\ out.value # None

\* The first validation returned a user, that user is still what the cache
\* holds under the first validation's key, and the token has not expired since
StillCached(t) ==
    /\ ReturnedUser(local[t].prev.out)
    /\ local[t].present
    /\ RawTokens[local[t].token.token].exp >= timegm_utcnow(local[t].at)

\* C1 as stated: whatever the token, the second of two validations within one
\* time bucket returns what the first returned and requests no get_user
C1_CacheHitAsClaimed ==
    \A t \in Revalidators :
        Revalidated(t) => outcome[t] = local[t].prev.out /\ ~local[t].called

\* C1, amended: when a token is validated twice within one time bucket, the
\* first validation returned a user, that user is still the cache's entry for
\* the key and the token has not expired meanwhile, the second validation
\* returns the same user and requests no get_user
C1_CacheHit ==
    \A t \in Revalidators :
        (Revalidated(t) /\ StillCached(t)) => outcome[t] = local[t].prev.out /\ ~local[t].called

C1_Witness ==
    \E t \in Revalidators :
        /\ Revalidated(t) /\ StillCached(t)
        /\ local[t].prev.at # local[t].at
        /\ outcome[t] = local[t].prev.out /\ ~local[t].called

\* The get_user call of task t's validation returns in this step
ValidateResumes(t) == pc[t] = "await" /\ pc'[t] = "done"

LoginClaim(t) == RawTokens[local[t].token.token].claims.login

\* C2: on a cache miss validate returns a user only if get_user answered 200
\* with the id of the token's login claim; when the answer carries another id,
\* validate returns None and leaves the cache as it was
C2_IdMustMatch ==
    [][\A t \in Validators :
          ValidateResumes(t) =>
              LET a == obs'[t].final
                  mismatch == a.status = 200 /\ a.body.mail # LoginClaim(t)
              IN  /\ ReturnedUser(outcome'[t]) => (a.status = 200 /\ a.body.mail = LoginClaim(t))
                  /\ mismatch => (outcome'[t] = Return(None) /\ USER_CACHE' = USER_CACHE)]_vars

C2_Witness ==
    \E t \in Validators :
        /\ pc[t] = "done"
        /\ local[t].called
        /\ obs[t].final.status = 200
        /\ obs[t].final.body.mail # LoginClaim(t)
        /\ outcome[t] = Return(None)
        /\ USER_CACHE = <<>>

-----------------------------------------------------------------------------
(* Claims about refresh_service_token, under SpecRefresh *)

\* C11: refresh_service_token replaces the stored ServiceToken as a whole with
\* the decoded response of its renewal when that succeeds; when the renewal
\* fails the error reaches the caller and the stored ServiceToken is the one
\* that was stored when the call was made.
C11_RefreshAtomic ==
    \A t \in Refreshers :
        pc[t] = "done" =>
            IF outcome[t].kind = "return" /\ obs[t].final.status = 200
            THEN /\ _service_token = obs[t].final.body
                 /\ outcome[t] = Return([str |-> obs[t].final.body.service_token])
            ELSE _service_token = local[t].before

-----------------------------------------------------------------------------
(* Claims about successive validations, under SpecRevalidate *)

\* Task t validated a token, got a user that was cached, and validates the
\* token again when time has moved into a later time bucket
RolledOver(t) ==
    /\ pc[t] \in {"await", "done"}
    /\ local[t].prev # None
    /\ ReturnedUser(local[t].prev.out)
    /\ TimeBucket(local[t].at) > TimeBucket(local[t].prev.at)

Unexpired(t) == RawTokens[local[t].token.token].exp >= timegm_utcnow(local[t].at)

ValidatesExpired(t) ==
    /\ pc[t] \in {"await", "done"}
    /\ local[t].token.type \in {"bearer", "wstoken"}
    /\ RawTokens[local[t].token.token].dot
    /\ RawTokens[local[t].token.token].sig
    /\ ~Unexpired(t)

\* C13: a token whose signature is valid but which has expired makes validate
\* fail with the unauthorized error, not return None, and no get_user call is
\* issued for it.
C13_ExpiredUnauthorized ==
    \A t \in Revalidators :
        ValidatesExpired(t) =>
            /\ pc[t] = "done"
            /\ outcome[t] = Raise("HTTPUnauthorized", None)
            /\ ~local[t].called

\* Task t enters validate in this step (for the first time with this token,
\* or again)
ValidateStarts(t) == pc[t] \in {"idle", "done"} /\ pc'[t] \in {"await", "done"}

\* The token is not of a bearer-like type, or its string has no '.'
NotThisScheme(token) ==
    token.type \notin {"bearer", "wstoken"} \/ ~RawTokens[token.token].dot

\* C14: a token whose type is not bearer-like, or whose string lacks the '.',
\* makes validate return None at once: no request is issued, and the cache and
\* the service token stay as they were.
C14_NotThisScheme ==
    [][\A t \in Revalidators :
          (ValidateStarts(t) /\ NotThisScheme(local'[t].token)) =>
              /\ pc'[t] = "done"
              /\ outcome'[t] = Return(None)
              /\ ~local'[t].called /\ stack'[t] = <<>>
              /\ USER_CACHE' = USER_CACHE
              /\ _service_token' = _service_token]_vars

\* A token of another type was turned down while a user sits in the cache
C14_Witness ==
    \E t \in Revalidators :
        /\ pc[t] = "done"
        /\ local[t].token.type = "basic"
        /\ outcome[t] = Return(None)
        /\ ~local[t].called
        /\ USER_CACHE # <<>>

\* The token is of a bearer-like type and has the '.', but its signature does
\* not verify (DecodeError), or it decodes at time t and carries no login claim
SoftFails(token, t) ==
    /\ ~NotThisScheme(token)
    /\ \/ ~RawTokens[token.token].sig
       \/ /\ jwt_decode(token.token, t, FALSE) = "ok"
          /\ RawTokens[token.token].claims.login = NoneStr

\* C15: a token that fails decoding with a DecodeError (a tampered signature
\* included), or that decodes but carries no login claim, makes validate
\* return None: no error, no user, and no request.
C15_SoftFail ==
    [][\A t \in Revalidators :
          (ValidateStarts(t) /\ SoftFails(local'[t].token, now)) =>
              /\ pc'[t] = "done"
              /\ outcome'[t] = Return(None)
              /\ ~local'[t].called /\ stack'[t] = <<>>
              /\ USER_CACHE' = USER_CACHE]_vars

\* A token with alice's claims and a signature that does not verify was turned
\* down while alice's user sits in the cache
C15_Witness ==
    \E t \in Revalidators :
        /\ pc[t] = "done"
        /\ local[t].token = [type |-> "bearer", token |-> "forged"]
        /\ outcome[t] = Return(None)
        /\ ~local[t].called
        /\ USER_CACHE # <<>>
        /\ USER_CACHE[1].user.id = RawTokens["forged"].claims.login

\* The get_user request of task t's validation, the first or a retry, exceeds
\* its timeout in this step
LookupTimesOut(t) ==
    /\ pc[t] = "await"
    /\ Len(stack[t]) = 1
    /\ Top(stack[t]).url = "get_user" /\ Top(stack[t]).phase = "request"
    /\ pc'[t] = "done"
    /\ obs'[t].final.status = 0

\* C16: whenever the get_user request made during a validation times out, on
\* the first attempt or on a retry, validate fails with the dependency failure
\* of reason userApiTimeout.
C16_TimeoutSurfaces ==
    [][\A t \in Revalidators :
          LookupTimesOut(t) => outcome'[t] = Raise("HTTPFailedDependency", UserApiTimeout)]_vars

-----------------------------------------------------------------------------
(* More claims about the dispatcher, under SpecCall *)

\* A request of task t's chain is answered in this step with a status of 500
\* or more that is not retriable
ServerErrorAnswered(t) ==
    /\ Awaiting(t, "request")
    /\ obs'[t] # obs[t]
    /\ obs'[t].last.status >= 500
    /\ obs'[t].last.status \notin RETRIABLE_CODES

\* C17: an answer with a status of 500 or more outside the retriable set makes
\* call_auth fail at once with the dependency failure carrying that status and
\* body: nothing more is requested and no renewal of the service token is
\* triggered.
C17_ServerErrorFailsAtOnce ==
    [][\A t \in CallTasks :
          ServerErrorAnswered(t) =>
              /\ pc'[t] = "done" /\ stack'[t] = <<>>
              /\ \E text \in Texts :
                     /\ outcome'[t] = HTTPFailedDependency("Unhandled oauth server error",
                                          Top(stack[t]).retries, obs'[t].last.status, text)
                     /\ Len(stack[t]) = 1 => text = obs'[t].final.body.text
              /\ ~obs'[t].last.renewed
              /\ _service_token' = _service_token]_vars

\* A retry of the call was answered 500 and the call failed with it
C17_Witness ==
    \E t \in CallTasks :
        /\ pc[t] = "done"
        /\ obs[t].final.status = 500 /\ obs[t].final.retries > 0
        /\ outcome[t] = HTTPFailedDependency("Unhandled oauth server error",
                            obs[t].final.retries, 500, obs[t].final.body.text)

-----------------------------------------------------------------------------
(* More claims about the renewal loop, under SpecLoop *)

Sleeping(t) == pc[t] \in {"sleep", "sleep10", "sleep30"}

\* C18: after a successful renewal the loop sleeps (expiry - now - 60) seconds
\* before it renews again; after a connection error it waits 10 s, and after
\* any other error 30 s.
C18_SleepDurations ==
    \A t \in LoopTasks :
        Sleeping(t) =>
            /\ pc[t] = "sleep" =>
                   local[t].time_to_sleep = _service_token.exp - local[t].now_ - EXPIRY_MARGIN
            /\ obs[t].exc = "ClientConnectorError" =>
                   (pc[t] = "sleep10" /\ local[t].time_to_sleep = 10)
            /\ obs[t].exc \notin {NoneStr, "ClientConnectorError"} =>
                   (pc[t] = "sleep30" /\ local[t].time_to_sleep = 30)

-----------------------------------------------------------------------------
(* More claims about the validation of tokens, under SpecRevalidate *)

\* C19: on a cache miss validate calls get_user with the current scope and the
\* login claim as user, and with the inbound token as bearer Authorization
\* header, on the first attempt and on every retry; no service token is among
\* the parameters or in the header.
C19_BearerLookup ==
    \A t \in Revalidators :
        pc[t] = "await" =>
            /\ stack[t][1].url = "get_user"
            /\ stack[t][1].params = [scope |-> local[t].scope, user |-> LoginClaim(t)]
            /\ stack[t][1].headers = [Authorization |-> <<"Bearer ", local[t].token.token>>]

\* The lookup is retried after a forced renewal stored a service token
C19_Witness ==
    \E t \in Revalidators :
        /\ pc[t] = "await"
        /\ Len(stack[t]) = 1 /\ stack[t][1].retries > 0 /\ stack[t][1].phase = "request"
        /\ _service_token # None
        /\ stack[t][1].headers = [Authorization |-> <<"Bearer ", local[t].token.token>>]

-----------------------------------------------------------------------------
(* Claims about concurrent validations, under SpecValidate *)

\* Task u's validation completes in this step while task t's validation of
\* the same cache key, which missed the cache too, is in flight or has completed
CompletesBeside(u, t) ==
    /\ t # u
    /\ pc[u] = "await" /\ pc'[u] = "done"
    /\ pc[t] \in {"await", "done"}
    /\ local[t].called
    /\ local[t].key = local[u].key

\* The places of cache c that hold key k
EntriesIn(c, k) == {i \in 1..Len(c) : c[i].key = k}

\* C20: when validations of the same cache key run concurrently and all miss,
\* each of them completes with the result of its own get_user call; one that
\* returns a user leaves the cache with one entry for the key, that user, and
\* one that returns no user leaves the cache as the others made it.
C20_ConcurrentMisses ==
    [][\A t \in Validators, u \in Validators :
          CompletesBeside(u, t) =>
              /\ outcome'[u].kind \in {"return", "raise"}
              /\ IF ReturnedUser(outcome'[u])
                 THEN /\ obs'[u].final.status = 200
                      /\ outcome'[u].value =
                             OAuthGuillotinaUser(obs'[u].final.body,
                                                 RawTokens[local[u].token.token].claims)
                      /\ Cardinality(EntriesIn(USER_CACHE', local[u].key)) = 1
                      /\ \A i \in EntriesIn(USER_CACHE', local[u].key) :
                             USER_CACHE'[i].user = outcome'[u].value
                 ELSE USER_CACHE' = USER_CACHE]_vars

\* One of two concurrent validations of a key has returned and cached its
\* user; the other, which missed as well, is still waiting for get_user
C20_Witness ==
    \E t \in Validators, u \in Validators :
        /\ pc[t] = "done" /\ pc[u] = "await"
        /\ local[t].called
        /\ local[t].key = local[u].key
        /\ ReturnedUser(outcome[t])
        /\ USER_CACHE = <<[key |-> local[t].key, user |-> outcome[t].value]>>

-----------------------------------------------------------------------------
(* Claims about the backoff decorator, under SpecCall *)

\* The request task t waits for is answered in this step
Answered(t) ==
    /\ Awaiting(t, "request")
    /\ obs'[t].requests # obs[t].requests \/ obs'[t].last # obs[t].last

\* The request task t waits for ends in this step and the decorator goes to
\* sleep before another try
EntersBackoff(t) ==
    /\ Awaiting(t, "request")
    /\ stack'[t] # <<>>
    /\ Top(stack'[t]).phase = "backoff"

\* The decorator's sleep of task t is over in this step
LeavesBackoff(t) == Awaiting(t, "backoff") /\ stack'[t] # stack[t]

\* C21: a transport-level error of an attempt is retried by the backoff
\* decorator, 4 tries of the attempt at most; a try of the decorator leaves the
\* retries of the status path, the operation, params and headers as they were,
\* and an answered request, whatever its status, never starts a backoff.
C21_TransportBackoff ==
    /\ [](\A t \in CallTasks : \A i \in 1..Len(stack[t]) :
              stack[t][i].tries \in 1..BACKOFF_MAX_TRIES)
    /\ [][\A t \in CallTasks :
             /\ EntersBackoff(t) =>
                    /\ ~Answered(t)
                    /\ obs'[t] = obs[t]
                    /\ Top(stack[t]).tries < BACKOFF_MAX_TRIES
                    /\ stack'[t] = SetTop(stack[t], [Top(stack[t]) EXCEPT !.phase = "backoff"])
             /\ LeavesBackoff(t) =>
                    /\ stack'[t] = SetTop(stack[t], [Top(stack[t]) EXCEPT !.tries = @ + 1,
                                                                          !.phase = "request"])
                    /\ obs'[t] = obs[t]
             /\ Answered(t) =>
                    (stack'[t] # <<>> => Top(stack'[t]).phase # "backoff")]_vars

\* The third retry of the status path is at the fourth try of its request
C21_Witness ==
    \E t \in CallTasks :
        /\ Awaiting(t, "request")
        /\ Len(stack[t]) = 1
        /\ Top(stack[t]).retries = MAX_RETRIES
        /\ Top(stack[t]).tries = BACKOFF_MAX_TRIES

-----------------------------------------------------------------------------
(* Claims about the contents of the cache, under SpecValidate *)

\* The login component of a cache key: the piece after the first "::"
KeyLogin(k) ==
    k[(CHOOSE i \in 1..Len(k) : k[i] = "::" /\ \A j \in 1..(i - 1) : k[j] # "::") + 1]

\* A validation of task t ends in this step
ValidateEnds(t) ==
    /\ pc'[t] = "done"
    /\ pc[t] \in {"idle", "await"} \/ local'[t] # local[t]

\* C22: every entry of the cache is a user whose id is the login component of
\* the entry's key, and a validation that ends without a user (None, whether
\* for a mismatch of the id or not, or an error) leaves the cache as it was.
C22_CacheInvariant ==
    /\ [](\A i \in 1..Len(USER_CACHE) : USER_CACHE[i].user.id = KeyLogin(USER_CACHE[i].key))
    /\ [][\A t \in Validators :
             (ValidateEnds(t) /\ ~ReturnedUser(outcome'[t])) => USER_CACHE' = USER_CACHE]_vars

\* get_user answered with another user's id while a user sits in the cache:
\* the validation returned None and the entry is still the cached user's
C22_Witness ==
    \E t \in Validators :
        /\ pc[t] = "done"
        /\ local[t].called
        /\ obs[t].final.status = 200
        /\ obs[t].final.body.mail # LoginClaim(t)
        /\ outcome[t] = Return(None)
        /\ USER_CACHE # <<>>
        /\ USER_CACHE[1].user.id = KeyLogin(USER_CACHE[1].key)

-----------------------------------------------------------------------------
(* Claims about the keys of the cache, under SpecIsolate *)

TokenClaim(t) == RawTokens[local[t].token.token].claims.token

\* Task t's validation found its key in the cache and returned the entry
Served(t) ==
    /\ pc[t] = "done"
    /\ local[t].key # <<>>
    /\ ~local[t].called
    /\ ReturnedUser(outcome[t])

\* Task t's validation has computed a cache key
Keyed(t) == pc[t] \in {"await", "done"} /\ local[t].key # <<>>

\* The (scope, login, token, bucket) the key of task t's validation was made of
KeyTuple(t) == <<local[t].scope, LoginClaim(t), TokenClaim(t), TimeBucket(local[t].at)>>

\* C23: a validation is served a cached user only when the entry was stored
\* for the same login and the same token value (the user's id and token are
\* those of the claims of the served validation), and validations of distinct
\* (scope, login, token, bucket) look under distinct keys.
C23_CacheIsolation ==
    /\ \A t \in Validators :
           Served(t) =>
               /\ outcome[t].value.id = LoginClaim(t)
               /\ outcome[t].value.token = TokenClaim(t)
    /\ \A t \in Validators, u \in Validators :
           (Keyed(t) /\ Keyed(u) /\ local[t].key = local[u].key) => KeyTuple(t) = KeyTuple(u)

-----------------------------------------------------------------------------
(* Claims about the requests of a call, under SpecUsers *)

\* Task t's get_users awaits its call_auth
InCall(t) == pc[t] = "await" /\ local[t].stage = "call"

\* C24: every request of a call_auth chain, the first and each retry, carries
\* the operation, params and headers the call was made with: after a renewal
\* forced by 484 the retry still sends the service_token of the original
\* params, whatever credential is stored by then.
C24_SameRequest ==
    \A t \in UsersTasks :
        InCall(t) =>
            /\ stack[t][1].url = local[t].request.url
            /\ stack[t][1].params = local[t].request.params
            /\ stack[t][1].headers = local[t].request.headers

\* The retry after a forced renewal is out with the credential the call was
\* made with, while another credential is stored
C24_Witness ==
    \E t \in UsersTasks :
        /\ InCall(t)
        /\ Len(stack[t]) = 1 /\ stack[t][1].retries > 0 /\ stack[t][1].phase = "request"
        /\ stack[t][1].params.service_token \in Creds
        /\ _service_token # None
        /\ _service_token.service_token # stack[t][1].params.service_token

-----------------------------------------------------------------------------
(* Claims about the statuses that are no errors, under SpecCall *)

\* A request of task t's chain is answered in this step with a status that is
\* not 200, not retriable and below 500
RejectionAnswered(t) ==
    /\ Answered(t)
    /\ obs'[t].last.status \notin RETRIABLE_CODES \cup {200}
    /\ obs'[t].last.status < 500

\* C25: an answer with a status that is not 200, not retriable and below 500
\* makes the invocation of call_auth that got it return None: no error is
\* raised, nothing is requested again for it, no renewal is triggered and the
\* service token stays; a call answered so at its first attempt has returned
\* None after one answered request.
C25_RejectionReturnsNone ==
    [][\A t \in CallTasks :
          RejectionAnswered(t) =>
              /\ ~obs'[t].last.renewed
              /\ _service_token' = _service_token
              /\ IF Len(stack[t]) = 1
                 THEN /\ pc'[t] = "done" /\ stack'[t] = <<>>
                      /\ outcome'[t] = Return(None)
                      /\ Top(stack[t]).retries = 0 =>
                             (obs'[t].requests = 1 /\ obs'[t].attempts = 1)
                 ELSE \* the renewal forced by a 484 returned None: its caller
                      \* goes on to the retry of line 553
                      /\ pc'[t] = "await" /\ outcome'[t] = Running
                      /\ stack'[t] = SetTop(Pop(stack[t]),
                                            [stack[t][Len(stack[t]) - 1] EXCEPT
                                                 !.retries = @ + 1, !.tries = 1,
                                                 !.phase = "request"])]_vars

\* The first attempt of a call was answered 404: None after one request
C25_Witness ==
    \E t \in CallTasks :
        /\ pc[t] = "done"
        /\ obs[t].final.status = 404
        /\ obs[t].requests = 1 /\ obs[t].attempts = 1
        /\ outcome[t] = Return(None)

-----------------------------------------------------------------------------
(* Claims about the age of what the cache serves, under SpecValidate *)

\* The key a validation of task t's token in task t's container computes at
\* time `at`
KeyAt(t, at) ==
    get_user_cache_key(local[t].scope, Spelling(LoginClaim(t)), Spelling(TokenClaim(t)), at)

-----------------------------------------------------------------------------
(* Claims about concurrent renewals, under SpecRenewals *)

\* A renewal of task t's chain returns its response in this step
RenewalCompletes(t) ==
    /\ Awaiting(t, "request")
    /\ Top(stack[t]).url = "get_service_token"
    /\ obs'[t].renewal # obs[t].renewal

\* C27: whichever of the concurrent renewals (of the loop, of a read of the
\* service_token property, forced by a 484) completes, the stored ServiceToken
\* becomes its whole response, credential and expiry together, and nothing else
\* changes what is stored: the last renewal to complete wins, whenever it
\* was started.
C27_LastWriterWins ==
    [][/\ \A t \in Renewers : RenewalCompletes(t) => _service_token' = obs'[t].renewal
       /\ _service_token' # _service_token =>
              \E t \in Renewers :
                  /\ Awaiting(t, "request")
                  /\ Top(stack[t]).url = "get_service_token"
                  /\ obs'[t].renewal = _service_token']_vars

\* The loop renewed and sleeps; a renewal forced by a 484 on the handler's
\* call completed after it with another response, which is what is stored
C27_Witness ==
    \E t \in UsersTasks, l \in LoopTasks :
        /\ InCall(t)
        /\ obs[t].renewal # None
        /\ obs[t].renewal.service_token # local[t].request.params.service_token
        /\ _service_token = obs[t].renewal
        /\ pc[l] = "sleep"
        /\ obs[l].renewal # None
        /\ obs[l].renewal.service_token # _service_token.service_token
        /\ obs[l].renewal.exp # _service_token.exp

====
